---- MODULE Spec2Model ----
(***************************************************************************)
(* A model of github.com/quintans/pool: the channel based condition        *)
(* variable Cond (cond.go) and the generic object pool Pool[T] (pool.go)   *)
(* with its janitor goroutine.                                             *)
(*                                                                         *)
(* Every goroutine is a thread with a program counter.  A step of a thread *)
(* runs from one caller supplied callback, lock acquisition or channel     *)
(* wait to the next, so the states in which a callback is executing, and   *)
(* the holder of Pool.mutex in them, are visible.                          *)
(*                                                                         *)
(* Time.  The maps locked and unlocked hold a time.Time per object, and    *)
(* the code only ever looks at now.Sub(t).  The model keeps that           *)
(* difference, the age of the entry: time.Now() stores age 0, a tick of    *)
(* the clock adds one to every age, and an age stops growing once it is    *)
(* past its timeout.                                                       *)
(*                                                                         *)
(* Channels.  A channel made by Cond is known by who refers to it: it is   *)
(* Cond.ch, or it was Cond.ch once and some Wait still holds it.           *)
(*                                                                         *)
(* Contexts.  The cancellation of a context is modelled where it is seen:  *)
(* in the select of Cond.Wait, and in the select of the janitor.           *)
(***************************************************************************)
EXTENDS Integers, FiniteSets, TLC

(* ------------------------------ bounds --------------------------------- *)
\* number of goroutines that use the pool once New has returned it
NClients == 2
\* number of objects the create callback can return
MaxRes == 2
\* largest Size option and largest MinIdle option that are explored
MaxSize == 2
MaxMinIdle == 2
\* goroutines that call Cond.Wait directly (SpecGate)
NWaiters == 3
\* the calls of expire counted per object; more are recorded as this many
MaxExpire == 1

(* ------------------- options, in ticks of the clock -------------------- *)
IdleTimeout == 1
BorrowTimeout == 1
JanitorSleep == 1

(* ------------------------------ names ---------------------------------- *)
\* nil: no object, nobody holds the mutex
Nil == 0
\* the goroutines that use the pool once New has returned it
Clients == 1..NClients
\* the goroutine that calls New
NewCaller == NClients + 1
\* the goroutine started by New
Janitor == NClients + 2
Threads == {Janitor} \cup Clients \cup {NewCaller}
\* the callers of CleanUp: the janitor, on every tick of its ticker
Cleaners == {Janitor}
Waiters == 1..NWaiters
Res == 1..MaxRes

VARIABLES
  size, minIdle,          \* Pool.size, Pool.minIdle after the options ran
  sinceTick,              \* clock ticks since the ticker last fired
  tickPending,            \* a tick waits in ticker.C
  mutex,                  \* holder of Pool.mutex, Nil when free
  locked, unlocked,       \* Pool.locked, Pool.unlocked: object -> age of its time.Time
  closed,                 \* Pool.closed
  cond,                   \* Pool.cond: [ch: state of the channel s.ch, closed: s.closed,
                          \*             made: who made s.ch, NewCond or Wait]
  pc,                     \* position of every goroutine
  cur,                    \* object handed to the callback a goroutine runs, and the
                          \* object a Borrow returns
  idx,                    \* keepMinIdle's loop variable i
  due,                    \* entries the running range loops still visit:
                          \* CleanUp (those its now finds expired), closing (all)
  expired,                \* CleanUp's local expired
  tok,                    \* Cond.Wait's local ch
  signalled,              \* Broadcast was called since this Wait captured ch
  bres,                   \* what Borrow returned
  created,                \* objects create has returned so far
  expireCount,            \* invocations of expire per object
  loaned,                 \* objects callers got from Borrow and have not given to Return
  fatal                   \* the runtime aborted the program: concurrent map access

cfgVars == <<size, minIdle>>
timeVars == <<sinceTick, tickPending>>
poolVars == <<mutex, locked, unlocked, closed>>
threadVars == <<pc, cur, idx, due, expired>>
waitVars == <<tok, signalled>>
histVars == <<created, expireCount, loaned>>
vars == <<cfgVars, timeVars, poolVars, cond, threadVars, waitVars, bres, histVars, fatal>>

(* ------------------------------ Go maps -------------------------------- *)
EmptyMap == [o \in {} |-> 0]
Put(m, k, v) == [o \in (DOMAIN m) \cup {k} |-> IF o = k THEN v ELSE m[o]]
Del(m, k) == [o \in (DOMAIN m) \ {k} |-> m[o]]
MapLen(m) == Cardinality(DOMAIN m)

\* time.Now() as the value of a map entry: age 0
TimeNow == 0
\* every entry of m is one tick older; ages past the timeout are alike
Older(m, timeout) ==
  [o \in DOMAIN m |-> IF m[o] > timeout THEN m[o] ELSE m[o] + 1]

objectCount == MapLen(unlocked) + MapLen(locked)

(* ------------------------------ cond.go -------------------------------- *)
\* Wait up to its select, and Broadcast, run under Cond.mutex: each is one step.
\* NewCond(): ch: make(chan struct{}, 0)
NewCond == [ch |-> "open", closed |-> FALSE, made |-> "NewCond"]

\* Wait, under Cond.mutex: if s.closed { s.ch = make(chan struct{}, 0); s.closed = false }
WaitRotates == cond.closed
\* a Wait that finds s.closed and keeps the channel
CondAfterWaitNoRotate == cond

CondAfterWait ==
  IF WaitRotates THEN [ch |-> "open", closed |-> FALSE, made |-> "Wait"] ELSE cond

\* the channel a Wait holds, once Wait has replaced s.ch
Retired(t) ==
  IF t = "cur" THEN (IF cond.ch = "closed" THEN "old_closed" ELSE "old_open")
  ELSE t

\* Wait up to s.mutex.Unlock(): the rotation and ch := s.ch
CondWaitEnter(w) ==
  /\ cond' = CondAfterWait
  /\ tok' = [v \in DOMAIN tok |->
               IF v = w THEN "cur"
               ELSE IF WaitRotates THEN Retired(tok[v]) ELSE tok[v]]
  /\ signalled' = [signalled EXCEPT ![w] = FALSE]

\* Wait's select, case <-ch: the channel held is closed
WaitCanWake(w) ==
  \/ tok[w] = "old_closed"
  \/ tok[w] = "cur" /\ cond.ch = "closed"

\* Wait returns: its local ch is gone
CondWaitReturn(w) ==
  /\ tok' = [tok EXCEPT ![w] = "none"]
  /\ signalled' = [signalled EXCEPT ![w] = FALSE]

\* a Broadcast that sets the flag and leaves the channel open
CondAfterBroadcastNoClose ==
  IF cond.closed THEN cond ELSE [cond EXCEPT !.closed = TRUE]

\* Broadcast: if s.closed { return }; s.closed = true; close(s.ch)
CondAfterBroadcast ==
  IF cond.closed THEN cond ELSE [cond EXCEPT !.ch = "closed", !.closed = TRUE]

CondBroadcast ==
  /\ cond' = CondAfterBroadcast
  /\ signalled' = [w \in DOMAIN signalled |-> signalled[w] \/ tok[w] # "none"]

\* p.expire(ctx, o) is called: expireCount after the call
Expire(o) == [expireCount EXCEPT ![o] = IF @ < MaxExpire THEN @ + 1 ELSE @]

(* ---------------------- pool.go: keepMinIdle --------------------------- *)
\* idle := len(p.unlocked); if idle >= p.minIdle || p.objectCount() >= p.size
KeepMinIdleSkips == MapLen(unlocked) >= minIdle \/ objectCount >= size

\* for i := idle; i < p.minIdle; i++
KeepMinIdleMore(i) == i < minIdle

\* the object a successful create returns: a fresh identity
NewObject == created + 1
\* create can return one more object (otherwise it returns an error)
CanCreate == created < MaxRes

(* ------------------------- pool.go: Borrow ----------------------------- *)
\* Borrow returns (o, r) to its caller (the deferred Unlock has run)
BorrowReturns(c, o, r) ==
  /\ pc' = [pc EXCEPT ![c] = "b_ret"]
  /\ bres' = [bres EXCEPT ![c] = r]
  /\ cur' = [cur EXCEPT ![c] = o]
  /\ mutex' = Nil

\* for !p.closed && p.objectCount() >= p.size
BorrowMustWait == ~closed /\ objectCount >= size

\* Borrow, holding the mutex, runs on to its next callback or to the Wait:
\*   scan:  for o := range p.unlocked { ok, err := p.validate(ctx, o) ...
\*   then:  for !p.closed && p.objectCount() >= p.size { p.mutex.Unlock() ...
\*   then:  o, err := p.create(ctx)
BorrowGoesOn(c, scan) ==
  IF scan /\ DOMAIN unlocked # {}
    THEN /\ \E o \in DOMAIN unlocked : cur' = [cur EXCEPT ![c] = o]
         /\ pc' = [pc EXCEPT ![c] = "b_validate"]
         /\ mutex' = c
    ELSE IF BorrowMustWait
      THEN /\ mutex' = Nil
           /\ pc' = [pc EXCEPT ![c] = "b_unlocked"]
           /\ cur' = [cur EXCEPT ![c] = Nil]
      ELSE /\ pc' = [pc EXCEPT ![c] = "b_create"]
           /\ cur' = [cur EXCEPT ![c] = Nil]
           /\ mutex' = c

\* p.mutex.Lock(); if p.closed { return nil, ErrPoolClosed }; the scan
BorrowLock(c) ==
  /\ ~fatal /\ pc[NewCaller] = "n_done"
  /\ pc[c] = "idle" /\ mutex = Nil
  /\ IF closed
       THEN BorrowReturns(c, Nil, "closed")
       ELSE /\ BorrowGoesOn(c, TRUE)
            /\ UNCHANGED bres
  /\ UNCHANGED <<cfgVars, timeVars, locked, unlocked, closed, cond, idx, due,
                 expired, tok, signalled, histVars, fatal>>

\* a Borrow that drops the candidate when validate returns an error
BorrowValidateRetErrDrops(c, ok, err) ==
  /\ ~fatal /\ pc[c] = "b_validate"
  /\ IF err
       THEN /\ BorrowReturns(c, Nil, "validateErr")
            /\ unlocked' = Del(unlocked, cur[c])
            /\ UNCHANGED <<locked, histVars>>
       ELSE IF ok
         THEN /\ unlocked' = Del(unlocked, cur[c])
              /\ locked' = Put(locked, cur[c], TimeNow)
              /\ BorrowReturns(c, cur[c], "ok")
              /\ UNCHANGED histVars
         ELSE /\ unlocked' = Del(unlocked, cur[c])
              /\ expireCount' = Expire(cur[c])
              /\ pc' = [pc EXCEPT ![c] = "b_expire"]
              /\ UNCHANGED <<locked, mutex, cur, bres, created, loaned>>
  /\ UNCHANGED <<cfgVars, timeVars, closed, cond, idx, due, expired, waitVars, fatal>>

\* validate returned (ok, err)
BorrowValidateRet(c, ok, err) ==
  /\ ~fatal /\ pc[c] = "b_validate"
  /\ IF err
       THEN \* return nil, fmt.Errorf("on validating on borrow: %w", err)
            /\ BorrowReturns(c, Nil, "validateErr")
            /\ UNCHANGED <<locked, unlocked, histVars>>
       ELSE IF ok
         THEN \* delete(p.unlocked, o); p.locked[o] = time.Now(); return o, nil
              /\ unlocked' = Del(unlocked, cur[c])
              /\ locked' = Put(locked, cur[c], TimeNow)
              /\ BorrowReturns(c, cur[c], "ok")
              /\ UNCHANGED histVars
         ELSE \* delete(p.unlocked, o); p.expire(ctx, o)
              /\ unlocked' = Del(unlocked, cur[c])
              /\ expireCount' = Expire(cur[c])
              /\ pc' = [pc EXCEPT ![c] = "b_expire"]
              /\ UNCHANGED <<locked, mutex, cur, bres, created, loaned>>
  /\ UNCHANGED <<cfgVars, timeVars, closed, cond, idx, due, expired, waitVars, fatal>>

\* expire returned: the next iteration of the range loop
BorrowExpireRet(c) ==
  /\ ~fatal /\ pc[c] = "b_expire"
  /\ BorrowGoesOn(c, TRUE)
  /\ UNCHANGED <<cfgVars, timeVars, locked, unlocked, closed, cond, idx, due,
                 expired, tok, signalled, bres, histVars,
                 fatal>>

\* err := p.cond.Wait(ctx), up to the select
BorrowWaitEnter(c) ==
  /\ ~fatal /\ pc[c] = "b_unlocked"
  /\ CondWaitEnter(c)
  /\ pc' = [pc EXCEPT ![c] = "b_wait"]
  /\ UNCHANGED <<cfgVars, timeVars, poolVars, cur, idx, due, expired, 
                 bres, histVars, fatal>>

\* a Borrow that looks at p.closed before it looks at Wait's err
RelockOutcomeClosedFirst(err, isClosed) ==
  IF isClosed THEN "closed" ELSE IF err # "nil" THEN "ctx" ELSE "loop"

\* after p.mutex.Lock(): what Borrow does with Wait's err and p.closed
\*   if err != nil { return ... }; if p.closed { return ErrPoolClosed }
RelockOutcome(err, isClosed) ==
  IF err # "nil" THEN "ctx" ELSE IF isClosed THEN "closed" ELSE "loop"

\* a Borrow that goes back to the range over p.unlocked after its Wait
BorrowAfterWaitRescan(c, err) ==
  /\ mutex = Nil
  /\ CondWaitReturn(c)
  /\ IF RelockOutcome(err, closed) = "loop"
       THEN /\ BorrowGoesOn(c, TRUE)
            /\ UNCHANGED bres
       ELSE BorrowReturns(c, Nil, RelockOutcome(err, closed))
  /\ UNCHANGED <<cfgVars, timeVars, locked, unlocked, closed, cond, idx, due,
                 expired, histVars, fatal>>

\* Wait returned err: p.mutex.Lock(), the two checks, the loop condition
\* again.  The return of Wait is local to the goroutine, so it is taken in
\* one step with the Lock that follows it.
BorrowAfterWait(c, err) ==
  /\ mutex = Nil
  /\ CondWaitReturn(c)
  /\ IF RelockOutcome(err, closed) = "loop"
       THEN /\ BorrowGoesOn(c, FALSE)
            /\ UNCHANGED bres
       ELSE BorrowReturns(c, Nil, RelockOutcome(err, closed))
  /\ UNCHANGED <<cfgVars, timeVars, locked, unlocked, closed, cond, idx, due,
                 expired, histVars, fatal>>

\* the select in Wait took case <-ch: return nil
BorrowWaitSignal(c) ==
  /\ ~fatal /\ pc[c] = "b_wait"
  /\ WaitCanWake(c)
  /\ BorrowAfterWait(c, "nil")

\* the ctx given to Borrow is cancelled or reaches its deadline, and the
\* select in Wait took case <-ctx.Done(): return ctx.Err()
BorrowWaitCancel(c) ==
  /\ ~fatal /\ pc[c] = "b_wait"
  /\ BorrowAfterWait(c, "ctx")

\* create returned (o, err)
BorrowCreateRet(c, err) ==
  /\ ~fatal /\ pc[c] = "b_create"
  /\ err \/ CanCreate
  /\ IF err
       THEN \* return nil, fmt.Errorf("on borrow: %w", err)
            /\ BorrowReturns(c, Nil, "createErr")
            /\ UNCHANGED <<locked, created>>
       ELSE \* p.locked[o] = time.Now(); return o, nil
            /\ locked' = Put(locked, NewObject, TimeNow)
            /\ created' = created + 1
            /\ BorrowReturns(c, NewObject, "ok")
  /\ UNCHANGED <<cfgVars, timeVars, unlocked, closed, cond, idx, due, expired,
                 waitVars, expireCount, loaned, fatal>>

\* the caller has Borrow's result, holds the object if there is one, and is
\* free to call again
BorrowDone(c) ==
  /\ ~fatal /\ pc[c] = "b_ret"
  /\ pc' = [pc EXCEPT ![c] = "idle"]
  /\ bres' = [bres EXCEPT ![c] = "none"]
  /\ cur' = [cur EXCEPT ![c] = Nil]
  /\ loaned' = IF bres[c] = "ok" THEN loaned \cup {cur[c]} ELSE loaned
  /\ UNCHANGED <<cfgVars, timeVars, poolVars, cond, idx, due, expired,
                 tok, signalled, created, expireCount, fatal>>

(* ------------------------- pool.go: Return ----------------------------- *)
\* if p.closed { return }; if o != nil { ... }
ReturnActs(o) == ~closed /\ o # Nil

\* a Return that leaves o in p.locked
ReturnLockedKept(o) == locked

\* delete(p.locked, o)
ReturnLocked(o) == Del(locked, o)

\* Return(ctx, o) by a client that is in no other call; o is an object a
\* Borrow gave out and that was not returned yet, or nil
Return(c, o) ==
  /\ ~fatal /\ pc[NewCaller] = "n_done"
  /\ pc[c] = "idle" /\ mutex = Nil
  /\ o \in loaned \cup {Nil}
  /\ loaned' = loaned \ {o}
  /\ IF ReturnActs(o)
       THEN \* delete(p.locked, o); p.unlocked[o] = time.Now(); p.cond.Broadcast()
            /\ locked' = ReturnLocked(o)
            /\ unlocked' = Put(unlocked, o, TimeNow)
            /\ CondBroadcast
       ELSE UNCHANGED <<locked, unlocked, cond, signalled>>
  /\ UNCHANGED <<cfgVars, timeVars, mutex, closed, threadVars, tok, 
                 bres, created, expireCount, fatal>>

(* ------------------------- pool.go: CleanUp ---------------------------- *)
CleanUpHome(t) == IF t = Janitor THEN "j_select" ELSE "idle"

\* CleanUp returns to its caller (the deferred Unlock has run)
CleanUpReturns(t) ==
  /\ pc' = [pc EXCEPT ![t] = CleanUpHome(t)]
  /\ mutex' = Nil
  /\ cur' = [cur EXCEPT ![t] = Nil]
  /\ idx' = [idx EXCEPT ![t] = 0]
  /\ due' = [due EXCEPT ![t] = {}]
  /\ expired' = [expired EXCEPT ![t] = FALSE]

\* a CleanUp that takes an age equal to the timeout as expired
IdleExpiredAtTimeout == {o \in DOMAIN unlocked : unlocked[o] >= IdleTimeout}
\* now := time.Now(); ... if now.Sub(t) > p.idleTimeout
IdleExpired == {o \in DOMAIN unlocked : unlocked[o] > IdleTimeout}

\* now := time.Now(); ... if now.Sub(t) > p.borrowTimeout
BorrowExpired == {o \in DOMAIN locked : locked[o] > BorrowTimeout}

\* if expired { p.cond.Broadcast() }
CleanUpBroadcasts(exp) == exp

\* CleanUp, holding the mutex, with the entries todo that its now finds
\* expired and its local expired = exp, runs on to its next callback or to
\* its return:
\*   for o, t := range p.unlocked: delete(p.unlocked, o); p.expire(ctx, o); expired = true
\*   for o, t := range p.locked:   delete(p.locked, o); p.expire(ctx, o); expired = true
\*   err := p.keepMinIdle(ctx); if expired { p.cond.Broadcast() }; return nil
CleanUpGoesOn(t, todo, exp) ==
  IF todo # {}
    THEN /\ \E o \in IF todo \cap DOMAIN unlocked # {}
                       THEN todo \cap DOMAIN unlocked ELSE todo :
              /\ unlocked' = IF o \in DOMAIN unlocked THEN Del(unlocked, o) ELSE unlocked
              /\ locked' = IF o \in DOMAIN unlocked THEN locked ELSE Del(locked, o)
              /\ expireCount' = Expire(o)
              /\ cur' = [cur EXCEPT ![t] = o]
              /\ due' = [due EXCEPT ![t] = todo \ {o}]
         /\ pc' = [pc EXCEPT ![t] = "c_expire"]
         /\ mutex' = t
         /\ expired' = [expired EXCEPT ![t] = TRUE]
         /\ UNCHANGED <<idx, cond, signalled>>
    ELSE IF KeepMinIdleSkips
      THEN /\ CleanUpReturns(t)
           /\ IF CleanUpBroadcasts(exp) THEN CondBroadcast
                                        ELSE UNCHANGED <<cond, signalled>>
           /\ UNCHANGED <<locked, unlocked, expireCount>>
      ELSE /\ idx' = [idx EXCEPT ![t] = MapLen(unlocked)]
           /\ pc' = [pc EXCEPT ![t] = "c_create"]
           /\ cur' = [cur EXCEPT ![t] = Nil]
           /\ mutex' = t
           /\ due' = [due EXCEPT ![t] = {}]
           /\ expired' = [expired EXCEPT ![t] = exp]
           /\ UNCHANGED <<locked, unlocked, expireCount, cond, signalled>>

\* p.mutex.Lock(); if p.closed { return nil }; expired := false; now := time.Now()
CleanUpLock(t) ==
  /\ ~fatal /\ mutex = Nil
  /\ IF t = Janitor THEN pc[t] = "j_tick"
                    ELSE pc[t] = "idle" /\ pc[NewCaller] = "n_done"
  /\ IF closed
       THEN /\ pc' = [pc EXCEPT ![t] = CleanUpHome(t)]
            /\ UNCHANGED <<mutex, locked, unlocked, cur, idx, due, expired,
                           cond, signalled, expireCount>>
       ELSE CleanUpGoesOn(t, IdleExpired \cup BorrowExpired, FALSE)
  /\ UNCHANGED <<cfgVars, timeVars, closed, tok, bres, created, loaned, fatal>>

\* expire returned inside one of CleanUp's two loops
CleanUpExpireRet(t) ==
  /\ ~fatal /\ pc[t] = "c_expire"
  /\ CleanUpGoesOn(t, due[t], expired[t])
  /\ UNCHANGED <<cfgVars, timeVars, closed, tok, bres, created, loaned, fatal>>

\* create returned (o, err) inside keepMinIdle called by CleanUp:
\*   keepMinIdle: if err != nil { return err }; p.unlocked[o] = time.Now(); i++
\*   CleanUp: if err != nil { return err }; if expired { Broadcast }; return nil
CleanUpCreateRet(t, err) ==
  /\ ~fatal /\ pc[t] = "c_create"
  /\ err \/ CanCreate
  /\ created' = IF err THEN created ELSE created + 1
  /\ IF err
       THEN /\ CleanUpReturns(t)
            /\ UNCHANGED <<unlocked, cond, signalled>>
       ELSE /\ unlocked' = Put(unlocked, NewObject, TimeNow)
            /\ IF KeepMinIdleMore(idx[t] + 1)
                 THEN /\ idx' = [idx EXCEPT ![t] = @ + 1]
                      /\ UNCHANGED <<pc, mutex, cur, due, expired, cond, signalled>>
                 ELSE /\ CleanUpReturns(t)
                      /\ IF CleanUpBroadcasts(expired[t])
                           THEN CondBroadcast
                           ELSE UNCHANGED <<cond, signalled>>
  /\ UNCHANGED <<cfgVars, timeVars, locked, closed, tok, bres, expireCount, loaned, fatal>>

(* --------------------------- pool.go: New ------------------------------ *)
\* Size(size): if size < 1 { size = 1 }
SizeOption(n) == IF n < 1 THEN 1 ELSE n
\* MinIdle(minIdle): if minIdle < 0 { minIdle = 0 }
MinIdleOption(n) == IF n < 0 THEN 0 ELSE n

\* the closing branch is inside one of its two range loops
InClosingLoops == pc[Janitor] = "x_expire"

\* err := p.keepMinIdle(ctx), called by New without the mutex, up to the
\* first create
NewKeep ==
  /\ ~fatal /\ pc[NewCaller] = "n_keep"
  /\ IF KeepMinIdleSkips
       THEN /\ pc' = [pc EXCEPT ![NewCaller] = "n_done"]
            /\ UNCHANGED idx
       ELSE /\ pc' = [pc EXCEPT ![NewCaller] = "n_create"]
            /\ idx' = [idx EXCEPT ![NewCaller] = MapLen(unlocked)]
  /\ UNCHANGED <<cfgVars, timeVars, poolVars, cond, cur, due, expired,
                 waitVars, bres, histVars, fatal>>

\* create returned (o, err) inside keepMinIdle called by New:
\*   keepMinIdle: if err != nil { return err }; p.unlocked[o] = time.Now(); i++
\*   New: if err != nil { return nil, err }; return p, nil
\* A closing loop that is ranging over p.unlocked may or may not produce
\* the new entry; one that has still to start on p.unlocked will.
NewCreateRet(err) ==
  /\ ~fatal /\ pc[NewCaller] = "n_create"
  /\ err \/ CanCreate
  /\ IF err
       THEN /\ pc' = [pc EXCEPT ![NewCaller] = "n_failed"]
            /\ idx' = [idx EXCEPT ![NewCaller] = 0]
            /\ UNCHANGED <<unlocked, created, due>>
       ELSE /\ unlocked' = Put(unlocked, NewObject, TimeNow)
            /\ created' = created + 1
            /\ IF KeepMinIdleMore(idx[NewCaller] + 1)
                 THEN /\ idx' = [idx EXCEPT ![NewCaller] = @ + 1]
                      /\ UNCHANGED pc
                 ELSE /\ idx' = [idx EXCEPT ![NewCaller] = 0]
                      /\ pc' = [pc EXCEPT ![NewCaller] = "n_done"]
            /\ IF InClosingLoops
                 THEN \E seen \in IF cur[Janitor] \in DOMAIN unlocked
                                    THEN BOOLEAN ELSE {TRUE} :
                        due' = [due EXCEPT ![Janitor] = IF seen THEN @ \cup {NewObject} ELSE @]
                 ELSE UNCHANGED due
  /\ UNCHANGED <<cfgVars, timeVars, mutex, locked, closed, cond, cur, expired,
                 waitVars, bres, expireCount, loaned, fatal>>

\* New's keepMinIdle uses the maps while the janitor, holding the mutex,
\* uses them too: the Go runtime may stop the program ("concurrent map
\* read and map write")
NewMapRace ==
  /\ ~fatal /\ pc[NewCaller] \in {"n_keep", "n_create"}
  /\ mutex = Janitor
  /\ fatal' = TRUE
  /\ UNCHANGED <<cfgVars, timeVars, poolVars, cond, threadVars, waitVars,
                 bres, histVars>>

(* ------------------------ pool.go: the janitor ------------------------- *)
\* case <-ticker.C:
JanitorTick ==
  /\ ~fatal /\ pc[Janitor] = "j_select" /\ tickPending
  /\ tickPending' = FALSE
  /\ pc' = [pc EXCEPT ![Janitor] = "j_tick"]
  /\ UNCHANGED <<cfgVars, sinceTick, poolVars, cond, cur, idx, due, expired,
                 waitVars, bres, histVars, fatal>>

\* the ctx given to New is cancelled, and the select took case <-ctx.Done()
JanitorCtxDone ==
  /\ ~fatal /\ pc[Janitor] = "j_select"
  /\ pc' = [pc EXCEPT ![Janitor] = "x_lock"]
  /\ UNCHANGED <<cfgVars, timeVars, poolVars, cond, cur, idx, due, expired,
                 waitVars, bres, histVars, fatal>>

\* the closing branch, holding the mutex, with the entries todo its loops
\* still visit, runs on to its next expire or to its end:
\*   for o := range p.locked { p.expire(ctx, o) }
\*   for o := range p.unlocked { p.expire(ctx, o) }
\*   p.locked = map[*T]time.Time{}; p.unlocked = map[*T]time.Time{}
\*   p.closed = true; return    (the deferred ticker.Stop() and Unlock run)
CloseGoesOn(todo) ==
  IF todo # {}
    THEN /\ \E o \in IF todo \cap DOMAIN locked # {}
                       THEN todo \cap DOMAIN locked ELSE todo :
              /\ expireCount' = Expire(o)
              /\ cur' = [cur EXCEPT ![Janitor] = o]
              /\ due' = [due EXCEPT ![Janitor] = todo \ {o}]
         /\ pc' = [pc EXCEPT ![Janitor] = "x_expire"]
         /\ mutex' = Janitor
         /\ UNCHANGED <<locked, unlocked, closed, tickPending>>
    ELSE /\ locked' = EmptyMap
         /\ unlocked' = EmptyMap
         /\ closed' = TRUE
         /\ mutex' = Nil
         /\ pc' = [pc EXCEPT ![Janitor] = "stopped"]
         /\ cur' = [cur EXCEPT ![Janitor] = Nil]
         /\ due' = [due EXCEPT ![Janitor] = {}]
         /\ tickPending' = FALSE
         /\ UNCHANGED expireCount

\* p.mutex.Lock() of the closing branch
CloseLock ==
  /\ ~fatal /\ pc[Janitor] = "x_lock" /\ mutex = Nil
  /\ CloseGoesOn(DOMAIN locked \cup DOMAIN unlocked)
  /\ UNCHANGED <<cfgVars, sinceTick, cond, idx, expired, waitVars, bres,
                 created, loaned, fatal>>

\* expire returned inside one of the two closing loops
CloseExpireRet ==
  /\ ~fatal /\ pc[Janitor] = "x_expire"
  /\ CloseGoesOn(due[Janitor])
  /\ UNCHANGED <<cfgVars, sinceTick, cond, idx, expired, waitVars, bres,
                 created, loaned, fatal>>

(* ----------------------------- the clock ------------------------------- *)
\* the ticker made by time.NewTicker(p.janitorSleep) is running
TickerRuns == pc[Janitor] # "stopped"

\* one unit of time passes
Tick ==
  /\ ~fatal
  /\ unlocked' = Older(unlocked, IdleTimeout)
  /\ locked' = Older(locked, BorrowTimeout)
  /\ sinceTick' = (sinceTick + 1) % JanitorSleep
  /\ tickPending' = (tickPending \/ (TickerRuns /\ sinceTick + 1 = JanitorSleep))
  /\ UNCHANGED <<cfgVars, mutex, closed, cond, threadVars, waitVars, bres,
                 histVars, fatal>>

(* ------------------------------ the pool ------------------------------- *)
\* the state New leaves once the options ran and the janitor was started
Init ==
  /\ \E n \in 0..MaxSize : size = SizeOption(n)
  /\ \E n \in -1..MaxMinIdle : minIdle = MinIdleOption(n)
  /\ sinceTick = 0 /\ tickPending = FALSE
  /\ mutex = Nil /\ locked = EmptyMap /\ unlocked = EmptyMap /\ closed = FALSE
  /\ cond = NewCond
  /\ pc = [t \in Threads |-> IF t = Janitor THEN "j_select"
                             ELSE IF t = NewCaller THEN "n_keep" ELSE "idle"]
  /\ cur = [t \in Threads |-> Nil]
  /\ idx = [t \in Threads |-> 0]
  /\ due = [t \in Threads |-> {}]
  /\ expired = [t \in Threads |-> FALSE]
  /\ tok = [c \in Clients |-> "none"]
  /\ signalled = [c \in Clients |-> FALSE]
  /\ bres = [c \in Clients |-> "none"]
  /\ created = 0
  /\ expireCount = [o \in Res |-> 0]
  /\ loaned = {}
  /\ fatal = FALSE

Next ==
  \/ \E c \in Clients : BorrowLock(c)
  \/ \E c \in Clients, ok \in BOOLEAN, err \in BOOLEAN : BorrowValidateRet(c, ok, err)
  \/ \E c \in Clients : BorrowExpireRet(c)
  \/ \E c \in Clients : BorrowWaitEnter(c)
  \/ \E c \in Clients : BorrowWaitSignal(c)
  \/ \E c \in Clients : BorrowWaitCancel(c)
  \/ \E c \in Clients, err \in BOOLEAN : BorrowCreateRet(c, err)
  \/ \E c \in Clients : BorrowDone(c)
  \/ \E c \in Clients, o \in Res \cup {Nil} : Return(c, o)
  \/ \E t \in Cleaners : CleanUpLock(t)
  \/ \E t \in Cleaners : CleanUpExpireRet(t)
  \/ \E t \in Cleaners, err \in BOOLEAN : CleanUpCreateRet(t, err)
  \/ NewKeep
  \/ \E err \in BOOLEAN : NewCreateRet(err)
  \/ NewMapRace
  \/ JanitorTick
  \/ JanitorCtxDone
  \/ CloseLock
  \/ CloseExpireRet
  \/ Tick

Spec == Init /\ [][Next]_vars

(* ------------------ cond.go on its own: Wait, Broadcast ---------------- *)
\* NewCond(), and NWaiters goroutines that have not called Wait yet
GateInit ==
  /\ size = 1 /\ minIdle = 0
  /\ sinceTick = 0 /\ tickPending = FALSE
  /\ mutex = Nil /\ locked = EmptyMap /\ unlocked = EmptyMap /\ closed = FALSE
  /\ cond = NewCond
  /\ pc = [w \in Waiters |-> "idle"]
  /\ cur = [w \in Waiters |-> Nil]
  /\ idx = [w \in Waiters |-> 0]
  /\ due = [w \in Waiters |-> {}]
  /\ expired = [w \in Waiters |-> FALSE]
  /\ tok = [w \in Waiters |-> "none"]
  /\ signalled = [w \in Waiters |-> FALSE]
  /\ bres = [w \in Waiters |-> "none"]
  /\ created = 0
  /\ expireCount = [o \in Res |-> 0]
  /\ loaned = {}
  /\ fatal = FALSE

gateFrame == <<cfgVars, timeVars, poolVars, cur, idx, due, expired, histVars, fatal>>

\* s.Wait(ctx), up to the select
GateWait(w) ==
  /\ pc[w] = "idle"
  /\ CondWaitEnter(w)
  /\ pc' = [pc EXCEPT ![w] = "g_wait"]
  /\ UNCHANGED <<gateFrame, bres>>

\* case <-ch: return nil
GateWake(w) ==
  /\ pc[w] = "g_wait"
  /\ WaitCanWake(w)
  /\ CondWaitReturn(w)
  /\ pc' = [pc EXCEPT ![w] = "idle"]
  /\ bres' = [bres EXCEPT ![w] = "nil"]
  /\ UNCHANGED <<gateFrame, cond>>

\* case <-ctx.Done(): return ctx.Err()
GateCancel(w) ==
  /\ pc[w] = "g_wait"
  /\ CondWaitReturn(w)
  /\ pc' = [pc EXCEPT ![w] = "idle"]
  /\ bres' = [bres EXCEPT ![w] = "ctx"]
  /\ UNCHANGED <<gateFrame, cond>>

\* s.Broadcast() by any goroutine
GateBroadcast ==
  /\ CondBroadcast
  /\ UNCHANGED <<gateFrame, pc, tok, bres>>

GateNext ==
  \/ \E w \in Waiters : GateWait(w)
  \/ \E w \in Waiters : GateWake(w)
  \/ \E w \in Waiters : GateCancel(w)
  \/ GateBroadcast

SpecGate == GateInit /\ [][GateNext]_vars

(* ======================= the claims, C1 to C10 ========================= *)
\* New has returned the pool to its caller
NewReturned == pc[NewCaller] = "n_done"
\* the ctx given to New is cancelled (the janitor has seen it)
PoolCtxDone == pc[Janitor] \in {"x_lock", "x_expire", "stopped"}
\* a goroutine is inside a callback: create, validate, expire
InCreate(t) == pc[t] \in {"b_create", "c_create", "n_create"}
InValidate(t) == pc[t] = "b_validate"
InExpire(t) == pc[t] \in {"b_expire", "c_expire", "x_expire"}
\* this step calls expire on o
ExpireCalled(o) ==
  \E t \in Threads :
    /\ pc'[t] \in {"b_expire", "c_expire", "x_expire"} /\ cur'[t] = o
    /\ <<pc[t], cur[t]>> # <<pc'[t], cur'[t]>>
\* this step is Return(ctx, o): the only step that ends a loan
ReturnOf(o) == o \in loaned /\ o \notin loaned'
\* this step is the first step of a Borrow by c
BorrowStarts(c) == pc[c] = "idle" /\ pc'[c] # "idle"

\* C1  Capacity: whenever New has returned and nobody is inside the
\* critical section, idle plus borrowed resources are at most size.
C1_Capacity == (NewReturned /\ mutex = Nil) => objectCount <= size

\* C1, the case met: New has returned and the pool holds objects
C1_Reached == NewReturned /\ mutex = Nil /\ objectCount > 0

\* C2  In every state in which a goroutine is inside create, validate or
\* expire, that goroutine does not hold the pool's mutex.
C2_NoLockInCallback ==
  \A t \in Threads : (InCreate(t) \/ InValidate(t) \/ InExpire(t)) => mutex # t

\* C2, the case met: some callback is running
C2_Reached == \E t \in Threads : InCreate(t) \/ InValidate(t) \/ InExpire(t)

\* this step is the return of a Borrow by c with an object
BorrowGives(c, o) ==
  pc[c] # "b_ret" /\ pc'[c] = "b_ret" /\ bres'[c] = "ok" /\ cur'[c] = o

\* C3  No use after destruction: once an object was passed to expire, it
\* is, outside the critical section, in neither map; it is not passed to
\* validate; and no Borrow returns it.
C3_NoUseAfterExpire ==
  [][\A o \in Res : expireCount[o] > 0 =>
       /\ mutex' = Nil => o \notin DOMAIN unlocked' \cup DOMAIN locked'
       /\ \A c \in Clients : ~(pc'[c] = "b_validate" /\ cur'[c] = o)
       /\ \A c \in Clients : ~BorrowGives(c, o)]_vars

\* C3, the case met: an expired object whose loan has not ended
C3_Reached == \E o \in Res : expireCount[o] > 0 /\ o \in loaned /\ ~closed

\* C4  expire is called at most once per object: no step calls expire on
\* an object it was called on before.
C4_ExpireOnce == [][\A o \in Res : ExpireCalled(o) => expireCount[o] = 0]_vars

\* C4, the case met: expire was called on every object create returned
C4_Reached == created = MaxRes /\ \A o \in Res : expireCount[o] > 0

\* C5  A Return of an object that CleanUp reclaimed from its borrower (it
\* is in no map, expire was called on it, its loan has not ended) changes
\* neither map nor the Cond.
C5_ReturnAfterReclaim ==
  [][\A o \in Res :
       (ReturnOf(o) /\ expireCount[o] > 0 /\ o \notin DOMAIN locked)
         => UNCHANGED <<locked, unlocked, cond>>]_vars

\* C5, the case met: a reclaimed object its borrower can still return
C5_Reached ==
  \E o \in Res : /\ o \in loaned /\ expireCount[o] > 0 /\ ~closed
                 /\ o \notin DOMAIN locked /\ mutex = Nil
                 /\ \E c \in Clients : pc[c] = "idle"

\* C6  Once the ctx given to New is cancelled, a Borrow that starts
\* returns ErrPoolClosed at once, and a Return changes nothing.
C6_ClosedRejects ==
  [][PoolCtxDone =>
       /\ \A c \in Clients :
            BorrowStarts(c) => (pc'[c] = "b_ret" /\ bres'[c] = "closed"
                                 /\ UNCHANGED <<locked, unlocked, created>>)
       /\ \A o \in Res : ReturnOf(o) => UNCHANGED <<locked, unlocked, cond>>]_vars

\* C6, the case met: a Borrow was refused with ErrPoolClosed
C6_Reached == \E c \in Clients : pc[c] = "b_ret" /\ bres[c] = "closed"

\* C7  A Borrow that the Cond has woken does not go back to waiting while
\* an object is idle in the open pool: the Return that woke it lets it
\* complete.
C7_ReturnUnblocks ==
  [][\A c \in Clients :
       (pc[c] = "b_wait" /\ pc'[c] = "b_unlocked" /\ ~closed)
         => DOMAIN unlocked = {}]_vars

\* C7, the case met: a Borrow waits, woken by a Return whose object is idle
C7_Reached ==
  \E c \in Clients : pc[c] = "b_wait" /\ WaitCanWake(c) /\ DOMAIN unlocked # {}
                     /\ ~closed /\ mutex = Nil

\* C8  A Borrow that leaves its Wait with no Broadcast having reached it
\* (its ctx was cancelled) returns the ctx error, and the step changes
\* neither map, nor closed, nor the Cond, nor any other waiter.
C8_CancelledBorrow ==
  [][\A c \in Clients :
       (pc[c] = "b_wait" /\ pc'[c] # "b_wait" /\ ~WaitCanWake(c)) =>
         /\ pc'[c] = "b_ret" /\ bres'[c] = "ctx"
         /\ UNCHANGED <<locked, unlocked, closed, cond, histVars>>
         /\ \A d \in Clients \ {c} :
              pc'[d] = pc[d] /\ tok'[d] = tok[d] /\ signalled'[d] = signalled[d]
                /\ bres'[d] = bres[d]]_vars

\* C8, the case met: a Borrow returned the ctx error while another waits
C8_Reached ==
  \E c \in Clients, d \in Clients :
    /\ c # d /\ pc[c] = "b_ret" /\ bres[c] = "ctx"
    /\ pc[d] = "b_wait" /\ ~WaitCanWake(d) /\ ~closed

\* C9  When New returns a pool with minIdle <= size, create has returned
\* exactly minIdle objects, exactly minIdle objects are idle and none is
\* borrowed.
C9_MinIdleTopUp ==
  [][(pc[NewCaller] # "n_done" /\ pc'[NewCaller] = "n_done"
        /\ minIdle <= size /\ ~PoolCtxDone /\ ~fatal)
       => (created' = minIdle /\ MapLen(unlocked') = minIdle
             /\ locked' = EmptyMap)]_vars

\* C9, the case met: New returned a pool with minIdle <= size, minIdle > 0
C9_Reached ==
  /\ NewReturned /\ minIdle > 0 /\ minIdle <= size /\ created = minIdle
  /\ MapLen(unlocked) = minIdle /\ \A c \in Clients : pc[c] = "idle"

\* C10  Every Wait that has captured s.ch and has had a Broadcast since
\* can return nil: its channel is closed.
C10_SignalSafety == \A w \in Waiters : signalled[w] => WaitCanWake(w)

\* C10, the case met: all the waiters wait on a Cond that had fired before,
\* and one Broadcast has reached them all
C10_Reached ==
  /\ \A w \in Waiters : pc[w] = "g_wait" /\ signalled[w] /\ tok[w] = "cur"
  /\ \E w \in Waiters : bres[w] = "nil"

(* ======================= the claims, C11 to C20 ======================== *)
\* this step is w's call of Wait, up to its select
WaitEnters(w) == pc[w] = "idle" /\ pc'[w] = "g_wait"
\* Broadcast has fired the Cond and no Wait was ever called
FiredUnheard ==
  /\ cond.closed
  /\ \A w \in Waiters : tok[w] = "none" /\ bres[w] = "none"

\* C11 (as the spec has it)  A Broadcast with no waiter is remembered: the
\* Wait that comes next can return nil at once.
C11_Remembered ==
  [][\A w \in Waiters : (FiredUnheard /\ WaitEnters(w)) => WaitCanWake(w)']_vars

\* C11 (as the code has it)  A Broadcast with no waiter is not remembered:
\* every Wait, whatever Broadcasts came before it, holds an open channel
\* when it reaches its select and blocks until a later Broadcast.
C11_NotRemembered ==
  [][\A w \in Waiters :
       WaitEnters(w) => (~WaitCanWake(w)' /\ cond'.ch = "open" /\ ~cond'.closed)]_vars

\* C11, the case met: the first Wait ever came after a Broadcast, replaced
\* the fired channel, and blocks
C11_Reached ==
  \E w \in Waiters :
    /\ pc[w] = "g_wait" /\ tok[w] = "cur" /\ ~WaitCanWake(w)
    /\ cond.made = "Wait"
    /\ \A v \in Waiters : bres[v] = "none" /\ (v # w => tok[v] = "none")

\* C12  Disjointness: no object is in p.unlocked and in p.locked at once.
C12_Disjoint == DOMAIN unlocked \cap DOMAIN locked = {}

\* C12, the case met: idle and borrowed objects exist, one of the idle ones
\* given back by Return after CleanUp had taken it from its borrower
C12_Reached ==
  /\ DOMAIN locked # {}
  /\ \E o \in DOMAIN unlocked : expireCount[o] > 0

\* this step is validate answering (false, nil) to c's Borrow
ValidateSaysInvalid(c) == pc[c] = "b_validate" /\ pc'[c] = "b_expire"
\* this step is the return of the expire that c's Borrow called
DiscardDone(c) == pc[c] = "b_expire" /\ pc'[c] # "b_expire"

\* C13  Validation discard: when validate answers (false, nil) for an idle
\* object, the object leaves p.unlocked and expire is called on it; when
\* that expire returns, Borrow validates another idle object if there is
\* one and calls create if there is none; and what Borrow returns is the
\* object validate accepted or the object create returned.
C13_ValidationDiscard ==
  [][\A c \in Clients :
       /\ ValidateSaysInvalid(c) =>
            /\ cur[c] \notin DOMAIN unlocked' \cup DOMAIN locked'
            /\ ExpireCalled(cur[c])
            /\ locked' = locked
       /\ DiscardDone(c) =>
            /\ ~ExpireCalled(cur[c])
            /\ IF DOMAIN unlocked # {}
                 THEN pc'[c] = "b_validate" /\ cur'[c] \in DOMAIN unlocked
                        /\ cur'[c] # cur[c]
                 ELSE pc'[c] = "b_create"
       /\ \A o \in Res : BorrowGives(c, o) =>
            \/ pc[c] = "b_validate" /\ o = cur[c] /\ o \in DOMAIN unlocked
            \/ pc[c] = "b_create" /\ o = NewObject /\ created' = created + 1]_vars

\* C13, the case met: a Borrow that discarded an invalid idle object is
\* validating the next one
C13_Reached ==
  \E c \in Clients, o \in Res :
    /\ pc[c] = "b_validate" /\ cur[c] # o /\ expireCount[o] > 0
    /\ o \notin DOMAIN unlocked \cup DOMAIN locked /\ o \notin loaned

\* CleanUp takes the mutex of an open pool and reads now := time.Now()
CleanUpStarts(t) == pc[t] \in {"j_tick", "idle"} /\ mutex' = t /\ ~closed
\* the step removes o from p.unlocked and calls p.expire on it, or has it
\* among the entries CleanUp will still remove before it returns
CleanUpEvicts(t, o) ==
  \/ o \notin DOMAIN unlocked' /\ cur'[t] = o /\ ExpireCalled(o)
  \/ o \in due'[t]
\* the step leaves o in p.unlocked and CleanUp will not remove it
CleanUpKeeps(t, o) == o \in DOMAIN unlocked' /\ o \notin due'[t]
\* CleanUp, between two of its expire calls or at its last one
CleanUpMovesOn(t) == pc[t] = "c_expire" /\ pc'[t] # "c_expire"

\* C14 (as stated): an idle object is kept by every CleanUp that runs before
\* its age reaches the idle timeout T, and is removed and destroyed by the
\* CleanUp that runs in [t0+T, t0+T+I), that is by the first CleanUp whose
\* now finds its age at T or more.
C14_IdleEviction ==
  [][\A t \in Cleaners : CleanUpStarts(t) =>
        \A o \in DOMAIN unlocked :
          IF unlocked[o] >= IdleTimeout THEN CleanUpEvicts(t, o)
                                        ELSE CleanUpKeeps(t, o)]_vars

\* C14 (amended): CleanUp keeps an idle object while its age is at most T
\* and removes and destroys it once its age is more than T; every entry it
\* found past the timeout is removed before it goes on to keepMinIdle.
C14_EvictsPastTimeout ==
  [][\A t \in Cleaners :
       /\ CleanUpStarts(t) =>
            \A o \in DOMAIN unlocked :
              IF unlocked[o] > IdleTimeout THEN CleanUpEvicts(t, o)
                                           ELSE CleanUpKeeps(t, o)
       /\ CleanUpMovesOn(t) => due[t] = {}]_vars

\* CleanUp is destroying an idle object and keeps another whose age is T
C14_Reached ==
  /\ pc[Janitor] = "c_expire" /\ ~closed
  /\ cur[Janitor] \notin loaned
  /\ \A c \in Clients : cur[c] # cur[Janitor]
  /\ \E o \in DOMAIN unlocked : unlocked[o] = IdleTimeout /\ o \notin due[Janitor]

\* the closing branch takes the mutex and starts its two loops
ClosingStarts == pc[Janitor] = "x_lock" /\ pc'[Janitor] # "x_lock"
\* the closing branch sets p.closed = true
ClosingEnds == ~closed /\ closed'
\* the ctx given to New is cancelled, p.closed is not set yet, and the Go
\* runtime has stopped the program
ClosingCutShort == PoolCtxDone /\ ~closed /\ fatal

\* C15  Closing drains the pool exactly once: once the ctx given to New is
\* cancelled nothing stops the closing branch before it has set p.closed;
\* it runs once; it calls expire on every object that is in p.locked or
\* p.unlocked when it starts; it leaves both maps empty and sets p.closed,
\* which stays set.
C15_ClosingDrains ==
  [][/\ ~ClosingCutShort'
     /\ pc[Janitor] = "stopped" => pc'[Janitor] = "stopped"
     /\ closed => closed'
     /\ ClosingStarts =>
          DOMAIN locked \cup DOMAIN unlocked
            = due'[Janitor] \cup (IF closed' THEN {} ELSE {cur'[Janitor]})
     /\ \A o \in due[Janitor] :
          pc[Janitor] = "x_expire" => (o \in due'[Janitor] \/ ExpireCalled(o))
     /\ ClosingEnds =>
          /\ due[Janitor] = {} /\ pc'[Janitor] = "stopped"
          /\ locked' = EmptyMap /\ unlocked' = EmptyMap]_vars

\* C15, the case met: the closing branch has run to its end over a pool
\* that held every object create returned
C15_Reached ==
  /\ closed /\ pc[Janitor] = "stopped" /\ created = MaxRes
  /\ \A o \in Res : expireCount[o] > 0
  /\ locked = EmptyMap /\ unlocked = EmptyMap

\* this step calls p.create: t enters create, or keepMinIdle's loop comes
\* round to it again
CreateCalled(t) ==
  /\ pc'[t] \in {"b_create", "c_create", "n_create"}
  /\ <<pc[t], idx[t]>> # <<pc'[t], idx'[t]>>

\* C16  Nothing happens after close: once p.closed is set, no step calls
\* create, no Borrow returns an object, and both maps stay empty, whatever
\* operation runs or is in progress (New's keepMinIdle included).
C16_NothingAfterClose ==
  [][closed =>
       /\ \A t \in Threads : ~CreateCalled(t)
       /\ created' = created
       /\ \A c \in Clients, o \in Res : ~BorrowGives(c, o)
       /\ locked' = EmptyMap /\ unlocked' = EmptyMap]_vars

\* C16, the case met: the pool is closed while New is inside keepMinIdle
C16_Reached == closed /\ pc[NewCaller] = "n_create" /\ ~fatal

\* this step is the return of a CleanUp that went past its p.closed test
CleanUpEnds(t) == pc[t] \in {"c_expire", "c_create"} /\ pc'[t] = CleanUpHome(t)
\* that CleanUp has removed an entry: its local expired is true
CleanUpEvicted(t) == pc[t] = "c_expire" \/ expired[t]

\* C17  A CleanUp on an open pool that has evicted an object calls
\* Broadcast before it returns, whether keepMinIdle succeeds or fails.
C17_EvictionBroadcasts ==
  [][\A t \in Cleaners :
       (CleanUpEnds(t) /\ CleanUpEvicted(t))
         => (cond' = CondAfterBroadcast /\ cond'.closed)]_vars

\* C17, the case met: CleanUp has evicted an object and keepMinIdle is
\* inside create
C17_Reached == \E t \in Cleaners : pc[t] = "c_create" /\ expired[t] /\ ~closed

\* c is blocked in the select of Wait: its channel is open
BlockedOnCond(c) == pc[c] = "b_wait" /\ ~WaitCanWake(c)
\* no goroutine is on its way to a Broadcast: New has returned, the janitor
\* sits in its select with no tick to take, and every client is either in
\* no call or blocked in Wait
NoBroadcastComing ==
  /\ ~fatal /\ mutex = Nil /\ NewReturned
  /\ pc[Janitor] = "j_select" /\ ~tickPending
  /\ \A c \in Clients : pc[c] = "idle" \/ BlockedOnCond(c)

\* C18  No lost wake-up in Borrow: a Borrow is never left blocked in Wait
\* while the pool is open, holds fewer than size objects, and no Broadcast
\* is coming.
C18_NoLostWakeup ==
  \A c \in Clients :
    ~(BlockedOnCond(c) /\ ~closed /\ objectCount < size /\ NoBroadcastComing)

\* C18, the case met: a Borrow has released the mutex in order to wait and
\* a Broadcast closes the channel before it has entered Wait
C18_Reached ==
  \E c \in Clients :
    pc[c] = "b_unlocked" /\ cond.ch = "closed" /\ cond.closed
      /\ cond.made = "NewCond" /\ ~closed

\* the closing branch has run to its end and no goroutine is inside a call
\* on the pool: every client is in no call or blocked in Wait
ClosedAndQuiet ==
  /\ closed /\ pc[Janitor] = "stopped" /\ mutex = Nil /\ ~fatal
  /\ pc[NewCaller] \in {"n_done", "n_failed"}
  /\ \A c \in Clients : pc[c] = "idle" \/ BlockedOnCond(c)

\* C19  Close releases blocked borrowers: once the closing branch has run
\* and nothing else is running, no Borrow is still blocked in Wait.
C19_CloseReleases == ClosedAndQuiet => \A c \in Clients : ~BlockedOnCond(c)

\* C19, the case met: the ctx given to New is cancelled while a Borrow is
\* blocked in Wait
C19_Reached ==
  \E c \in Clients : BlockedOnCond(c) /\ pc[Janitor] = "x_lock" /\ ~closed

\* c is inside the range over p.unlocked
InScan(c) == pc[c] \in {"b_validate", "b_expire"}
\* c is past the range over p.unlocked: at the wait loop or at create
PastScan(c) == pc[c] \in {"b_unlocked", "b_wait", "b_create"}
\* Wait has returned nil to c and the pool is open: the loop condition again
WokenGoesOn(c) ==
  pc[c] = "b_wait" /\ pc'[c] # "b_wait" /\ WaitCanWake(c) /\ ~closed
    /\ bres'[c] # "ctx"

BorrowStep(c) ==
  pc[c] # pc'[c] /\ (pc[c] = "idle" => pc'[c] # "idle") /\ pc[c] # "b_ret"
\* this step is the return of a Borrow by c with an error
BorrowFails(c) == BorrowStep(c) /\ pc'[c] = "b_ret" /\ bres'[c] # "ok"
\* this step puts an entry into p.locked or p.unlocked
EntryAdded ==
  \/ DOMAIN locked' \ DOMAIN locked # {}
  \/ DOMAIN unlocked' \ DOMAIN unlocked # {}

\* C21  A failed Borrow loans nothing: the only steps of a Borrow that add
\* an entry to a map are those that return an object, so a Borrow that
\* returns an error has added none; the step that returns the error changes
\* neither map, creates nothing, calls expire on nothing and returns no
\* object; and on an error of validate the scan stops there, with the
\* candidate still in p.unlocked.
C21_FailedBorrowLoansNothing ==
  [][\A c \in Clients :
       /\ (BorrowStep(c) /\ EntryAdded) =>
            (pc'[c] = "b_ret" /\ bres'[c] = "ok" /\ cur'[c] \in DOMAIN locked')
       /\ BorrowFails(c) =>
            /\ UNCHANGED <<locked, unlocked, created, expireCount>>
            /\ cur'[c] = Nil
            /\ bres'[c] \in {"closed", "validateErr", "ctx", "createErr"}
       /\ (BorrowFails(c) /\ pc[c] = "b_validate") =>
            /\ bres'[c] = "validateErr"
            /\ cur[c] \in DOMAIN unlocked'
            /\ ~ExpireCalled(cur[c])]_vars

\* C21, the case met: a Borrow has discarded one candidate and has returned
\* the error validate gave for the next, which is still idle and was never
\* passed to expire
C21_Reached ==
  \E c \in Clients, o \in Res, d \in Res :
    /\ pc[c] = "b_ret" /\ bres[c] = "validateErr" /\ mutex = Nil /\ ~closed
    /\ o \in DOMAIN unlocked /\ expireCount[o] = 0
    /\ d \notin DOMAIN unlocked \cup DOMAIN locked /\ expireCount[d] > 0
    /\ DOMAIN locked = {}

====
